---- MODULE Spec2Model ----
(***************************************************************************)
(* State-machine model of the LitLayer integration POC:                    *)
(*   key_generator.py        KeyGenerator (trading key, EIP-712 payload,   *)
(*                           signing, session store on disk) and main()    *)
(*   litlayer_rest_client.py LitLayerRestClient (generate_session,         *)
(*                           make_signed_request)                          *)
(*   mm_auction.py           MMAuction (register_mm_endpoint) and main()   *)
(*   mm_orderbook.py         OrderBookMM (start, the two periodic tasks)   *)
(* Strings are TLA+ strings; a Python dict is a sequence of key/value      *)
(* pairs in insertion order; a file holds a sequence of JSON tokens.       *)
(***************************************************************************)
EXTENDS Integers, Sequences, FiniteSets, TLC

VARIABLES
    files,        \* the .keys directory: path -> [exists, data]
    hist,         \* the last two store calls, oldest first
    pending,      \* per key: the record last saved there, no save/delete on that key since
    written,      \* the keys a record was ever saved at
    dirent,       \* concurrent callers: inode the shared key's path names, 0 if none
    inodes,       \* concurrent callers: inode -> file data
    proc,         \* concurrent callers: each caller's call in progress
    given,        \* concurrent callers: the records handed to save so far
    lib,          \* behaviour of the installed eth_keys build (fixed for a run)
    prog,         \* which program runs: the store's caller, a client, or main()
    clock,        \* time.time(), in ticks of 1/TicksPerSecond second
    ticks,        \* how often the clock has advanced
    session_data, \* LitLayerRestClient.session_data
    gs,           \* LitLayerRestClient.generate_session: the call in progress / last call
    lastReq,      \* what make_signed_request last handed to requests.request
    mn,           \* key_generator.main: position and locals
    enc,          \* encode_typed_data: a base input, a second input and both results
    auction,      \* MMAuction: session_data and the last register_mm_endpoint call
    mm            \* OrderBookMM: its fields and the position of each coroutine

storeVars == <<files, hist, pending, written>>
concVars == <<dirent, inodes, proc, given>>
clientVars == <<session_data, gs, lastReq>>
appVars == <<enc, auction, mm>>
vars == <<files, hist, pending, written, dirent, inodes, proc, given,
          lib, prog, appVars, clock, ticks, session_data, gs, lastReq, mn, enc, auction, mm>>

-----------------------------------------------------------------------------
(* Input domains.  The store API takes arbitrary str arguments             *)
(* (key_generator.py:221,227,236), so the sample keys include "_".         *)

Wallets == {"0x74", "0x74_b"}
SessionIds == {"c", "b_c"}
Keys == Wallets \X SessionIds

PyInt(i) == [t |-> "int", n |-> i, s |-> ""]
PyStr(x) == [t |-> "str", n |-> 0, s |-> x]

\* Sample session records (dicts of JSON-native values).
RecA == << [k |-> "trading_key", v |-> PyStr("0x01")],
           [k |-> "signature", v |-> PyStr("0xs1")],
           [k |-> "exchange_response", v |-> PyInt(1)] >>
RecB == << [k |-> "trading_key", v |-> PyStr("0x02")],
           [k |-> "signature", v |-> PyStr("0xs2")] >>
Records == {RecA, RecB}

-----------------------------------------------------------------------------
(* json.dump / json.load on a dict of ints and strings.                    *)

TokOpen == [kind |-> "{", s |-> "", n |-> 0]
TokClose == [kind |-> "}", s |-> "", n |-> 0]
TokKey(k) == [kind |-> "key", s |-> k, n |-> 0]
TokVal(v) == IF v.t = "int" THEN [kind |-> "num", s |-> "", n |-> v.n]
                            ELSE [kind |-> "str", s |-> v.s, n |-> 0]

RECURSIVE DumpItems(_)
DumpItems(d) ==
    IF d = <<>> THEN <<>>
    ELSE <<TokKey(Head(d).k), TokVal(Head(d).v)>> \o DumpItems(Tail(d))

JsonDump(d) == <<TokOpen>> \o DumpItems(d) \o <<TokClose>>

ValOfTok(t) == IF t.kind = "num" THEN PyInt(t.n) ELSE PyStr(t.s)

RECURSIVE LoadItems(_)
LoadItems(ts) ==
    IF ts = <<>> THEN <<>>
    ELSE <<[k |-> ts[1].s, v |-> ValOfTok(ts[2])]>> \o LoadItems(Tail(Tail(ts)))

WellFormed(ts) ==
    /\ Len(ts) >= 2
    /\ ts[1] = TokOpen
    /\ ts[Len(ts)] = TokClose
    /\ (Len(ts) - 2) % 2 = 0
    /\ \A i \in 2..(Len(ts) - 1) :
          IF i % 2 = 0 THEN ts[i].kind = "key" ELSE ts[i].kind \in {"num", "str"}

\* json.load: the parsed dict, or JSONDecodeError on text that is no document.
JsonLoad(ts) ==
    IF WellFormed(ts)
    THEN [kind |-> "value", value |-> LoadItems(SubSeq(ts, 2, Len(ts) - 1))]
    ELSE [kind |-> "error", value |-> <<>>]

-----------------------------------------------------------------------------
(* KeyGenerator's session store (key_generator.py:221-240).                *)

StorageDir == ".keys"
FilePath(w, s) == StorageDir \o "/" \o w \o "_" \o s \o ".key"
Paths == {FilePath(k[1], k[2]) : k \in Keys}

NoFile == [exists |-> FALSE, data |-> <<>>]
None == [kind |-> "none", value |-> <<>>]
Value(d) == [kind |-> "value", value |-> d]

\* A save that merges into the record already on disk (dict.update) instead of
\* replacing it: the fields of the old record that the new one lacks survive.
HasField(d, name) == \E i \in 1..Len(d) : d[i].k = name
MergeSaveSessionKeys(fs, w, s, keyData) ==
    LET old == JsonLoad(fs[FilePath(w, s)].data)
        kept == IF fs[FilePath(w, s)].exists /\ old.kind = "value"
                THEN SelectSeq(old.value, LAMBDA f : ~HasField(keyData, f.k))
                ELSE <<>>
    IN  [fs EXCEPT ![FilePath(w, s)] =
            [exists |-> TRUE, data |-> JsonDump(keyData \o kept)]]

\* open(path, "w") truncates or creates; json.dump writes; the with-block closes.
SaveSessionKeys(fs, w, s, keyData) ==
    [fs EXCEPT ![FilePath(w, s)] = [exists |-> TRUE, data |-> JsonDump(keyData)]]

LoadSessionKeys(fs, w, s) ==
    IF ~fs[FilePath(w, s)].exists THEN None
    ELSE JsonLoad(fs[FilePath(w, s)].data)

\* A delete that empties the file and leaves it in the directory.
TruncateSessionKeys(fs, w, s) ==
    IF fs[FilePath(w, s)].exists
    THEN [fs EXCEPT ![FilePath(w, s)] = [exists |-> TRUE, data |-> <<>>]]
    ELSE fs

\* key_generator.py:236-240
DeleteSessionKeys(fs, w, s) ==
    IF fs[FilePath(w, s)].exists
    THEN [fs EXCEPT ![FilePath(w, s)] = NoFile]
    ELSE fs

-----------------------------------------------------------------------------
(* Libraries and the clock.                                                *)
(* eth_keys is imported, not part of the repository.  Its PrivateKey       *)
(* renders to_hex() with a leading "0x", and its backends differ on        *)
(* whether a scalar outside [1, n-1] is rejected; lib keeps both           *)
(* renderings and both backends, fixed for a run.                          *)

Libs == [hexPrefixed : BOOLEAN, validates : BOOLEAN]

TicksPerSecond == 2
MaxTicks == 2
ExpiryWindow == 86400
IntTime(c) == c \div TicksPerSecond      \* int(time.time())
ClockSteps == {1, TicksPerSecond, ExpiryWindow * TicksPerSecond}

Ok(v) == [ok |-> TRUE, value |-> v, err |-> ""]
Raise(e) == [ok |-> FALSE, value |-> "", err |-> e]

-----------------------------------------------------------------------------
(* Hex strings and private keys.  A key is KeyLen bytes (32 in eth_keys);  *)
(* GroupOrder stands for the secp256k1 group order n.                      *)

KeyLen == 1
GroupOrder == 2
MaxDraw == 2
Draws == 0..MaxDraw                      \* secrets.token_bytes

HexLower == "0123456789abcdef"
HexUpper == "0123456789ABCDEF"
HexDigit(i) == SubSeq(HexLower, i + 1, i + 1)
IsHexChar(c) == \E i \in 0..15 : c = SubSeq(HexLower, i + 1, i + 1) \/ c = SubSeq(HexUpper, i + 1, i + 1)
HexVal(c) == CHOOSE i \in 0..15 : c = SubSeq(HexLower, i + 1, i + 1) \/ c = SubSeq(HexUpper, i + 1, i + 1)

RECURSIVE ToHex(_, _)
ToHex(v, nbytes) ==
    IF nbytes = 0 THEN ""
    ELSE ToHex(v \div 256, nbytes - 1) \o HexDigit((v % 256) \div 16) \o HexDigit(v % 16)

\* bytes.fromhex accepts an even number of hex digits and nothing else.
IsHex(x) == Len(x) % 2 = 0 /\ \A i \in 1..Len(x) : IsHexChar(SubSeq(x, i, i))

RECURSIVE HexToInt(_)
HexToInt(x) ==
    IF x = "" THEN 0
    ELSE HexToInt(SubSeq(x, 1, Len(x) - 1)) * 16 + HexVal(SubSeq(x, Len(x), Len(x)))

Bytes(len, val) == [len |-> len, val |-> val]

\* eth_keys PrivateKey(b): b must be KeyLen bytes; a validating backend also
\* requires the scalar to lie in [1, n-1].
PrivateKeyOk(b, l) ==
    /\ b.len = KeyLen
    /\ l.validates => (b.val >= 1 /\ b.val <= GroupOrder - 1)

\* eth_keys PrivateKey.to_hex()
KeyToHex(b, l) == (IF l.hexPrefixed THEN "0x" ELSE "") \o ToHex(b.val, b.len)

\* key_generator.py:48-61
GenerateTradingKey(agent_address, draw, l) ==
    IF PrivateKeyOk(Bytes(KeyLen, draw), l)
    THEN Ok("0x" \o KeyToHex(Bytes(KeyLen, draw), l))
    ELSE Raise("ValidationError")

-----------------------------------------------------------------------------
(* EIP-712 payload, digest and signature (key_generator.py:22-46, 63-161). *)
(* Addresses and bytes32 values are written with one byte.                 *)

ChainId == 42161
Domain == [name |-> "LitLayer", version |-> "v1", chainId |-> ChainId,
           verifyingContract |-> "0x00", salt |-> "0x00"]
Types == [Agent |-> << [name |-> "litLayer", type |-> "string"],
                       [name |-> "agentAddress", type |-> "address"],
                       [name |-> "platform", type |-> "string"],
                       [name |-> "expiryTime", type |-> "uint256"] >>,
          EIP712Domain |-> << [name |-> "name", type |-> "string"],
                              [name |-> "version", type |-> "string"],
                              [name |-> "chainId", type |-> "uint256"],
                              [name |-> "verifyingContract", type |-> "address"],
                              [name |-> "salt", type |-> "bytes32"] >>]

\* A prepare whose window is 24 hours counted in minutes, not seconds.
PrepareWindowInMinutes(agent_address, platform, environment, now) ==
    [domain |-> Domain,
     types |-> Types,
     message |-> [litLayer |-> environment, agentAddress |-> agent_address,
                  platform |-> platform, expiryTime |-> IntTime(now) + 1440]]

\* key_generator.py:63-95; now is the reading of time.time().
PrepareEip712Data(agent_address, platform, environment, now) ==
    [domain |-> Domain,
     types |-> Types,
     message |-> [litLayer |-> environment, agentAddress |-> agent_address,
                  platform |-> platform, expiryTime |-> IntTime(now) + ExpiryWindow]]

Keccak(x) == <<"keccak256", x>>

IsHexString(a) == Len(a) > 2 /\ SubSeq(a, 1, 2) = "0x" /\ IsHex(SubSeq(a, 3, Len(a)))

\* Whether the ABI encoder accepts the Python value pv for a field of the
\* given type.
AbiEncodable(type, pv) ==
    IF type = "uint256" THEN pv.t = "int" /\ pv.n >= 0
    ELSE IF type \in {"address", "bytes32"} THEN pv.t = "str" /\ IsHexString(pv.s)
    ELSE pv.t = "str"

\* The bytes a value of the given type is encoded to: an address or bytes32
\* written in hex is the number it spells, in either letter case.
AbiValue(type, pv) ==
    IF type \in {"address", "bytes32"} THEN PyInt(HexToInt(SubSeq(pv.s, 3, Len(pv.s))))
    ELSE pv

\* encode_typed(schema, values): the values encoded by the schema's types.
\* The field names of the schema do not enter the encoding.
EncodeTyped(schema, values) ==
    IF Len(schema) = Len(values)
       /\ \A i \in 1..Len(schema) : AbiEncodable(schema[i].type, values[i])
    THEN Ok([i \in 1..Len(schema) |->
                [type |-> schema[i].type, value |-> AbiValue(schema[i].type, values[i])]])
    ELSE Raise("EncodingError")

\* A domain separator that leaves the salt out.
EncodeDomainWithoutSalt(domain) ==
    LET e == EncodeTyped(SubSeq(Types.EIP712Domain, 1, 4),
                         <<PyStr(domain.name), PyStr(domain.version), PyInt(domain.chainId),
                           PyStr(domain.verifyingContract)>>)
    IN  IF e.ok THEN Ok(Keccak(e.value)) ELSE e

\* key_generator.py:116-127 (reads self.types, not the types of the payload)
EncodeDomain(domain) ==
    LET e == EncodeTyped(Types.EIP712Domain,
                         <<PyStr(domain.name), PyStr(domain.version), PyInt(domain.chainId),
                           PyStr(domain.verifyingContract), PyStr(domain.salt)>>)
    IN  IF e.ok THEN Ok(Keccak(e.value)) ELSE e

\* key_generator.py:129-139
EncodeMessage(types, message) ==
    LET e == EncodeTyped(types.Agent,
                         <<PyStr(message.litLayer), PyStr(message.agentAddress),
                           PyStr(message.platform), PyInt(message.expiryTime)>>)
    IN  IF e.ok THEN Ok(Keccak(e.value)) ELSE e

\* key_generator.py:97-114
EncodeTypedData(data) ==
    LET d == EncodeDomain(data.domain)
        m == EncodeMessage(data.types, data.message)
    IN  IF ~d.ok THEN d
        ELSE IF ~m.ok THEN m
        ELSE Ok(Keccak(<<"1901", d.value, m.value>>))

\* PrivateKey.sign_msg_hash(digest).to_hex(): determined by key and digest.
Signature(digest, keyVal) == [signer |-> keyVal, digest |-> digest]
NoSig == [signer |-> 0, digest |-> <<>>]

\* key_generator.py:141-161
SignEip712Data(eip712_data, private_key, l) ==
    LET hex == SubSeq(private_key, 3, Len(private_key))
    IN  IF ~IsHex(hex) THEN Raise("ValueError")
        ELSE LET b == Bytes(Len(hex) \div 2, HexToInt(hex))
                 d == EncodeTypedData(eip712_data)
             IN  IF ~PrivateKeyOk(b, l) THEN Raise("ValidationError")
                 ELSE IF ~d.ok THEN d
                 ELSE Ok(Signature(d.value, b.val))

\* key_generator.py:189-219: the payload posted, and the call's result for the
\* HTTP status the exchange answers with.
SubmitExchangeRequest(agent_address, platform, chain_id, expiry_time, signature, status) ==
    [payload |-> [proxy_address |-> agent_address, platform |-> platform,
                  chain_id |-> chain_id, expiry_time |-> expiry_time,
                  signature |-> signature],
     result |-> IF status = 200 THEN Ok("response") ELSE Raise("Exception")]

-----------------------------------------------------------------------------
(* Store calls made one at a time by a caller.                             *)

NoRec == [set |-> FALSE, rec |-> <<>>]
\* A call as the caller sees it: its arguments, what it returned, and what a
\* load of the same key would have returned just before it.
Call(op, w, s, rec, res) ==
    [op |-> op, w |-> w, s |-> s, rec |-> rec, res |-> res,
     before |-> LoadSessionKeys(files, w, s)]
Push(h, c) == IF Len(h) < 2 THEN Append(h, c) ELSE Append(Tail(h), c)

NoFiles == [p \in Paths |-> NoFile]
NoPending == [k \in Keys |-> NoRec]

\* The concurrent callers of the store, at rest.
NProcs == 2
Procs == 1..NProcs
Inos == 1..(NProcs + 1)
Idle == [pc |-> "idle", op |-> "", rec |-> <<>>, todo |-> <<>>, off |-> 0,
         ino |-> 0, res |-> [kind |-> "none", value |-> <<>>]]

NoInodes == [i \in Inos |-> <<>>]
NoProcs == [p \in Procs |-> Idle]

\* The client and main() before anything has run.
NoData == [domain |-> Domain, types |-> Types,
           message |-> [litLayer |-> "", agentAddress |-> "", platform |-> "",
                        expiryTime |-> 0]]
NoSession == [set |-> FALSE, wallet_address |-> "", agent_address |-> "",
              trading_key |-> "", eip712_data |-> NoData, signature |-> NoSig]
GsIdle == [pc |-> "idle", wallet |-> "", agent |-> "", trading_key |-> "",
           eip712_data |-> NoData, preparedAt |-> 0, signature |-> NoSig,
           outcome |-> "none", err |-> "", ret |-> NoSession, before |-> NoSession]
NoReq == [sent |-> FALSE, attached |-> FALSE, signature |-> NoSig, expiryTime |-> 0,
          at |-> 0, err |-> ""]
NoPayload == [proxy_address |-> "", platform |-> "", chain_id |-> 0,
              expiry_time |-> 0, signature |-> NoSig]
MainStart == [pc |-> "Uninitialized", trading_key |-> "", eip712_data |-> NoData,
              preparedAt |-> 0, signature |-> NoSig, payload |-> NoPayload,
              session_id |-> "", err |-> ""]

\* encode_typed_data before it was called.
NoResult == Raise("")
EncIdle == [base |-> NoData, baseRes |-> NoResult, data |-> NoData, res |-> NoResult,
            how |-> "none"]

\* MMAuction after __init__ (mm_auction.py:47-50): no session, nothing registered.
NoReg == [called |-> FALSE, err |-> "", sent |-> FALSE, attached |-> FALSE]
AuctionIdle == [session_data |-> NoSession, reg |-> NoReg]

\* OrderBookMM after __init__ (mm_orderbook.py:37-58).  An attribute that holds
\* None is "None"; _lock is an asyncio.Lock: locked or not, and the
\* coroutines waiting for it, first come first.
FreeLock == [locked |-> FALSE, holder |-> "", waiters |-> <<>>]
MaxOrders == 5                           \* order_config.max_orders, line 226
NoStart == [outcome |-> "none", err |-> ""]
MmIdle == [wallet_address |-> "", agent_address |-> "", session_data |-> NoSession,
           active_orders |-> <<>>, max_orders |-> MaxOrders, running |-> FALSE,
           pending_order_task |-> "None", cancel_order_task |-> "None",
           lock |-> FreeLock, start |-> NoStart, gen |-> NoStart,
           pt |-> "none", ct |-> "none", found |-> "", rest |-> <<>>]

\* A store that already holds one record: what one earlier save leaves.
SeededFiles == SaveSessionKeys(NoFiles, "0x74", "c", RecA)

StoreInit ==
    /\ files = NoFiles /\ hist = <<>> /\ pending = NoPending /\ written = {}
    /\ dirent = 0 /\ inodes = NoInodes /\ proc = NoProcs /\ given = {}
    /\ lib = [hexPrefixed |-> TRUE, validates |-> TRUE] /\ prog = "store"
    /\ clock = 0 /\ ticks = 0
    /\ session_data = NoSession /\ gs = GsIdle /\ lastReq = NoReq /\ mn = MainStart
    /\ enc = EncIdle /\ auction = AuctionIdle /\ mm = MmIdle

Init ==
    /\ files \in {NoFiles, SeededFiles} /\ hist = <<>> /\ pending = NoPending
    /\ written = (IF files = SeededFiles THEN {<<"0x74", "c">>} ELSE {})
    /\ dirent = 0 /\ inodes = NoInodes /\ proc = NoProcs /\ given = {}
    /\ lib \in Libs /\ prog \in {"client", "main"}
    /\ clock = 0 /\ ticks = 0
    /\ session_data = NoSession /\ gs = GsIdle /\ lastReq = NoReq /\ mn = MainStart
    /\ enc = EncIdle /\ auction = AuctionIdle /\ mm = MmIdle

Save(w, s, r) ==
    /\ files' = SaveSessionKeys(files, w, s, r)
    /\ hist' = Push(hist, Call("save", w, s, r, None))
    /\ pending' = [pending EXCEPT ![<<w, s>>] = [set |-> TRUE, rec |-> r]]
    /\ written' = written \cup {<<w, s>>}
    /\ UNCHANGED <<concVars, lib, prog, appVars, clock, ticks, clientVars, mn>>

Load(w, s) ==
    /\ hist' = Push(hist, Call("load", w, s, <<>>, LoadSessionKeys(files, w, s)))
    /\ UNCHANGED <<files, pending, written>>
    /\ UNCHANGED <<concVars, lib, prog, appVars, clock, ticks, clientVars, mn>>

Delete(w, s) ==
    /\ files' = DeleteSessionKeys(files, w, s)
    /\ hist' = Push(hist, Call("delete", w, s, <<>>, None))
    /\ pending' = [pending EXCEPT ![<<w, s>>] = NoRec]
    /\ UNCHANGED written
    /\ UNCHANGED <<concVars, lib, prog, appVars, clock, ticks, clientVars, mn>>

StoreNext ==
    \/ \E w \in Wallets, s \in SessionIds, r \in Records : Save(w, s, r)
    \/ \E w \in Wallets, s \in SessionIds : Load(w, s)
    \/ \E w \in Wallets, s \in SessionIds : Delete(w, s)

SpecStore == StoreInit /\ [][StoreNext]_vars

-----------------------------------------------------------------------------
(* The same three methods called concurrently on one key, none of them     *)
(* taking a lock (key_generator.py:221-240).  Each system call is a step.  *)
(* The path names an inode; an open handle keeps its inode after os.remove *)
(* unlinks the path; every handle writes at its own offset.                *)

TokNul == [kind |-> "nul", s |-> "", n |-> 0]
Max(a, b) == IF a > b THEN a ELSE b

\* write(2) of chunk at offset off: overwrites in place, zero-fills a gap.
WriteAt(d, off, chunk) ==
    [i \in 1..Max(Len(d), off + Len(chunk)) |->
        IF i > off /\ i <= off + Len(chunk) THEN chunk[i - off]
        ELSE IF i <= Len(d) THEN d[i] ELSE TokNul]

Referenced(i, dir, pr) == dir = i \/ \E q \in Procs : pr[q].ino = i
FreshIno == CHOOSE i \in Inos : ~Referenced(i, dirent, proc)
\* An inode no path and no handle refers to is released.
Reclaim(inos, dir, pr) == [i \in Inos |-> IF Referenced(i, dir, pr) THEN inos[i] ELSE <<>>]

Fail == [kind |-> "error", value |-> <<>>]

\* save, line 224: open(file_path, "w") creates the file or truncates it.
CSaveOpen(p, r) ==
    /\ proc[p].pc = "idle"
    /\ LET i == IF dirent = 0 THEN FreshIno ELSE dirent
            pr == [proc EXCEPT ![p] = [pc |-> "writing", op |-> "save", rec |-> r,
                                       todo |-> JsonDump(r), off |-> 0, ino |-> i,
                                       res |-> None]]
       IN  /\ dirent' = i
           /\ proc' = pr
           /\ inodes' = Reclaim([inodes EXCEPT ![i] = <<>>], i, pr)
    /\ given' = given \cup {r}
    /\ UNCHANGED <<storeVars, lib, prog, appVars, clock, ticks, clientVars, mn>>

\* save, line 225: json.dump fills the buffer; a full buffer is flushed.
CSaveFlush(p) ==
    /\ proc[p].pc = "writing"
    /\ \E n \in 1..Len(proc[p].todo) :
          /\ inodes' = [inodes EXCEPT ![proc[p].ino] =
                           WriteAt(@, proc[p].off, SubSeq(proc[p].todo, 1, n))]
          /\ proc' = [proc EXCEPT ![p].off = @ + n,
                                  ![p].todo = SubSeq(@, n + 1, Len(@))]
    /\ UNCHANGED <<dirent, given>>
    /\ UNCHANGED <<storeVars, lib, prog, appVars, clock, ticks, clientVars, mn>>

\* save, leaving the with-block: the rest is flushed and the handle closed.
CSaveClose(p) ==
    /\ proc[p].pc = "writing"
    /\ LET pr == [proc EXCEPT ![p].pc = "idle", ![p].todo = <<>>, ![p].off = 0,
                              ![p].ino = 0]
       IN  /\ proc' = pr
           /\ inodes' = Reclaim([inodes EXCEPT ![proc[p].ino] =
                                    WriteAt(@, proc[p].off, proc[p].todo)], dirent, pr)
    /\ UNCHANGED <<dirent, given>>
    /\ UNCHANGED <<storeVars, lib, prog, appVars, clock, ticks, clientVars, mn>>

\* load, lines 230-231: os.path.exists.
CLoadExists(p) ==
    /\ proc[p].pc = "idle"
    /\ proc' = [proc EXCEPT ![p] =
                  [Idle EXCEPT !.op = "load",
                               !.pc = IF dirent = 0 THEN "idle" ELSE "opening"]]
    /\ UNCHANGED <<dirent, inodes, given>>
    /\ UNCHANGED <<storeVars, lib, prog, appVars, clock, ticks, clientVars, mn>>

\* load, line 233: open(file_path, "r"); FileNotFoundError if the path is gone.
CLoadOpen(p) ==
    /\ proc[p].pc = "opening"
    /\ proc' = [proc EXCEPT ![p] =
                  IF dirent = 0 THEN [Idle EXCEPT !.op = "load", !.res = Fail]
                  ELSE [@ EXCEPT !.pc = "reading", !.ino = dirent]]
    /\ UNCHANGED <<dirent, inodes, given>>
    /\ UNCHANGED <<storeVars, lib, prog, appVars, clock, ticks, clientVars, mn>>

\* load, line 234: json.load reads the file as it is now and parses it.
CLoadRead(p) ==
    /\ proc[p].pc = "reading"
    /\ LET pr == [proc EXCEPT ![p] =
                    [Idle EXCEPT !.op = "load", !.res = JsonLoad(inodes[proc[p].ino])]]
       IN  /\ proc' = pr
           /\ inodes' = Reclaim(inodes, dirent, pr)
    /\ UNCHANGED <<dirent, given>>
    /\ UNCHANGED <<storeVars, lib, prog, appVars, clock, ticks, clientVars, mn>>

\* delete, line 239: os.path.exists.
CDeleteExists(p) ==
    /\ proc[p].pc = "idle"
    /\ proc' = [proc EXCEPT ![p] =
                  [Idle EXCEPT !.op = "delete",
                               !.pc = IF dirent = 0 THEN "idle" ELSE "removing"]]
    /\ UNCHANGED <<dirent, inodes, given>>
    /\ UNCHANGED <<storeVars, lib, prog, appVars, clock, ticks, clientVars, mn>>

\* delete, line 240: os.remove; FileNotFoundError if the path is gone.
CDeleteRemove(p) ==
    /\ proc[p].pc = "removing"
    /\ LET pr == [proc EXCEPT ![p] =
                    [Idle EXCEPT !.op = "delete",
                                 !.res = IF dirent = 0 THEN Fail ELSE None]]
       IN  /\ proc' = pr
           /\ dirent' = 0
           /\ inodes' = Reclaim(inodes, 0, pr)
    /\ UNCHANGED given
    /\ UNCHANGED <<storeVars, lib, prog, appVars, clock, ticks, clientVars, mn>>

ConcNext ==
    \/ \E p \in Procs, r \in Records : CSaveOpen(p, r)
    \/ \E p \in Procs : CSaveFlush(p)
    \/ \E p \in Procs : CSaveClose(p)
    \/ \E p \in Procs : CLoadExists(p)
    \/ \E p \in Procs : CLoadOpen(p)
    \/ \E p \in Procs : CLoadRead(p)
    \/ \E p \in Procs : CDeleteExists(p)
    \/ \E p \in Procs : CDeleteRemove(p)

SpecConc == StoreInit /\ [][ConcNext]_vars

-----------------------------------------------------------------------------
(* encode_typed_data applied to a base input and to inputs that differ     *)
(* from it in one domain field or in the order of one schema.              *)

EncDomains == [name : {"LitLayer", "Other"}, version : {"v1", "v2"},
               chainId : {ChainId, 1},
               verifyingContract : {"0x00", "0x0a", "0x0A"},
               salt : {"0x00", "0x01"}]
EncMessages == [litLayer : {"Devnet", "Mainnet"}, agentAddress : {"0xd2", "agent"},
                platform : {"turbox"}, expiryTime : {ExpiryWindow}]
DomainFields == {"name", "version", "chainId", "verifyingContract", "salt"}
Structs == {"Agent", "EIP712Domain"}

Swap(q, i, j) ==
    [k \in 1..Len(q) |-> IF k = i THEN q[j] ELSE IF k = j THEN q[i] ELSE q[k]]

EncInit ==
    /\ files = NoFiles /\ hist = <<>> /\ pending = NoPending /\ written = {}
    /\ dirent = 0 /\ inodes = NoInodes /\ proc = NoProcs /\ given = {}
    /\ lib = [hexPrefixed |-> TRUE, validates |-> TRUE] /\ prog = "encoder"
    /\ clock = 0 /\ ticks = 0
    /\ session_data = NoSession /\ gs = GsIdle /\ lastReq = NoReq /\ mn = MainStart
    /\ \E d \in EncDomains, m \in EncMessages :
          enc = [EncIdle EXCEPT !.base = [domain |-> d, types |-> Types, message |-> m],
                                !.data = [domain |-> d, types |-> Types, message |-> m]]
    /\ auction = AuctionIdle /\ mm = MmIdle

EncFrame == UNCHANGED <<storeVars, concVars, lib, prog, clock, ticks, clientVars, mn,
                        auction, mm>>

\* encode_typed_data(base)
EncodeBase ==
    /\ prog = "encoder" /\ enc.how = "none"
    /\ enc' = [enc EXCEPT !.baseRes = EncodeTypedData(enc.base),
                          !.res = EncodeTypedData(enc.base), !.how = "base"]
    /\ EncFrame

\* encode_typed_data of the base input with one domain field replaced.
EncodeWithDomainField(f, v) ==
    /\ prog = "encoder" /\ enc.how # "none"
    /\ v # enc.base.domain[f]
    /\ LET data == [enc.base EXCEPT !.domain[f] = v]
       IN  enc' = [enc EXCEPT !.data = data, !.res = EncodeTypedData(data),
                              !.how = "domain"]
    /\ EncFrame

\* encode_typed_data of the base input with two fields of one schema of its
\* "types" entry exchanged.
EncodeWithPermutedSchema(struct, i, j) ==
    /\ prog = "encoder" /\ enc.how # "none"
    /\ i < j /\ j <= Len(enc.base.types[struct])
    /\ LET data == [enc.base EXCEPT !.types[struct] = Swap(@, i, j)]
       IN  enc' = [enc EXCEPT !.data = data, !.res = EncodeTypedData(data),
                              !.how = "schema"]
    /\ EncFrame

EncNext ==
    \/ EncodeBase
    \/ \E f \in DomainFields :
          \E v \in {d[f] : d \in EncDomains} : EncodeWithDomainField(f, v)
    \/ \E struct \in Structs : \E i, j \in 1..5 : EncodeWithPermutedSchema(struct, i, j)

SpecEnc == EncInit /\ [][EncNext]_vars

-----------------------------------------------------------------------------
(* Time passes between any two statements.                                 *)

Tick ==
    /\ prog \in {"client", "main", "orderbook"}
    /\ ticks < MaxTicks
    /\ \E d \in ClockSteps : clock' = clock + d
    /\ ticks' = ticks + 1
    /\ UNCHANGED <<storeVars, concVars, lib, prog, appVars, clientVars, mn>>

-----------------------------------------------------------------------------
(* LitLayerRestClient (litlayer_rest_client.py).                           *)

WalletAddress == "0x74"
AgentAddresses == {"0xd2", "agent"}      \* a well-formed address and a malformed one
ApiKeys == {"", "your_api_key"}          \* api_key: None or set

SessionOf(g) ==
    [set |-> TRUE, wallet_address |-> g.wallet, agent_address |-> g.agent,
     trading_key |-> g.trading_key, eip712_data |-> g.eip712_data,
     signature |-> g.signature]

GsRaised(e) == [GsIdle EXCEPT !.outcome = "raised", !.err = e, !.before = gs.before]

\* generate_session, line 26
GsGenerateKey(wallet_address, agent_address, draw) ==
    /\ prog \in {"client", "auction"} /\ gs.pc = "idle"
    /\ LET k == GenerateTradingKey(agent_address, draw, lib)
       IN  gs' = IF k.ok
                 THEN [GsIdle EXCEPT !.pc = "KeyGenerated", !.wallet = wallet_address,
                                     !.agent = agent_address, !.trading_key = k.value,
                                     !.outcome = "running", !.before = session_data]
                 ELSE [GsIdle EXCEPT !.outcome = "raised", !.err = k.err,
                                     !.before = session_data]
    /\ UNCHANGED <<storeVars, concVars, lib, prog, appVars, clock, ticks, session_data, lastReq, mn>>

\* generate_session, lines 29-33
GsPrepare ==
    /\ gs.pc = "KeyGenerated"
    /\ gs' = [gs EXCEPT !.pc = "MessagePrepared",
                        !.eip712_data = PrepareEip712Data(gs.agent, "turbox", "Devnet", clock),
                        !.preparedAt = clock]
    /\ UNCHANGED <<storeVars, concVars, lib, prog, appVars, clock, ticks, session_data, lastReq, mn>>

\* A sign step that, when signing fails, keeps a session with an empty
\* signature instead of letting the error out.
GsSignSwallow ==
    /\ gs.pc = "MessagePrepared"
    /\ LET sg == SignEip712Data(gs.eip712_data, gs.trading_key, lib)
       IN  IF sg.ok
           THEN gs' = [gs EXCEPT !.pc = "Signed", !.signature = sg.value]
                /\ UNCHANGED session_data
           ELSE gs' = GsRaised(sg.err)
                /\ session_data' = SessionOf(gs)
    /\ UNCHANGED <<storeVars, concVars, lib, prog, appVars, clock, ticks, lastReq, mn>>

\* generate_session, line 34
GsSign ==
    /\ gs.pc = "MessagePrepared"
    /\ LET sg == SignEip712Data(gs.eip712_data, gs.trading_key, lib)
       IN  gs' = IF sg.ok
                 THEN [gs EXCEPT !.pc = "Signed", !.signature = sg.value]
                 ELSE GsRaised(sg.err)
    /\ UNCHANGED <<storeVars, concVars, lib, prog, appVars, clock, ticks, session_data, lastReq, mn>>

\* A return that also writes the new session to the store.
GsReturnAndSave ==
    /\ gs.pc = "Signed"
    /\ session_data' = SessionOf(gs)
    /\ gs' = [GsIdle EXCEPT !.outcome = "returned", !.ret = SessionOf(gs)]
    /\ files' = SaveSessionKeys(files, gs.wallet, "c", RecB)
    /\ UNCHANGED <<hist, pending, written, concVars, lib, prog, appVars, clock, ticks, lastReq, mn>>

\* generate_session, lines 37-45
GsReturn ==
    /\ gs.pc = "Signed"
    /\ session_data' = SessionOf(gs)
    /\ gs' = [GsIdle EXCEPT !.outcome = "returned", !.ret = SessionOf(gs)]
    /\ UNCHANGED <<storeVars, concVars, lib, prog, appVars, clock, ticks, lastReq, mn>>

\* make_signed_request, lines 66-79: what is handed to requests.request.
RequestMade(api_key, use_session) ==
    IF api_key = "" THEN [NoReq EXCEPT !.err = "API key not set"]
    ELSE IF use_session /\ session_data.set
    THEN [sent |-> TRUE, attached |-> TRUE,
          signature |-> session_data.signature,
          expiryTime |-> session_data.eip712_data.message.expiryTime,
          at |-> clock, err |-> ""]
    ELSE [NoReq EXCEPT !.sent = TRUE, !.at = clock]

MakeSignedRequest(api_key, use_session) ==
    /\ prog = "client" /\ gs.pc = "idle"
    /\ lastReq' = RequestMade(api_key, use_session)
    /\ UNCHANGED <<storeVars, concVars, lib, prog, appVars, clock, ticks, session_data, gs, mn>>

-----------------------------------------------------------------------------
(* key_generator.main(): the example run, one statement per step.          *)

MainAgent == "0xd2"

\* main, lines 287-295.  eip712_data is written as its message.expiryTime
\* (domain and types are the constants above); the signature as its text.
MainSessionData(sid) ==
    << [k |-> "session_id", v |-> PyStr(sid)],
       [k |-> "wallet_address", v |-> PyStr(WalletAddress)],
       [k |-> "agent_address", v |-> PyStr(MainAgent)],
       [k |-> "trading_key", v |-> PyStr(mn.trading_key)],
       [k |-> "eip712_data.message.expiryTime",
        v |-> PyInt(mn.eip712_data.message.expiryTime)],
       [k |-> "signature", v |-> PyStr(ToString(mn.signature))],
       [k |-> "exchange_response", v |-> PyStr("response")] >>

MainFrame == UNCHANGED <<concVars, lib, prog, appVars, clock, ticks, clientVars>>

\* main, line 251; an exception here is not caught.
MainGenerateKey(draw) ==
    /\ prog = "main" /\ mn.pc = "Uninitialized"
    /\ LET k == GenerateTradingKey(MainAgent, draw, lib)
       IN  mn' = IF k.ok
                 THEN [mn EXCEPT !.pc = "KeyGenerated", !.trading_key = k.value]
                 ELSE [mn EXCEPT !.pc = "crashed", !.err = k.err]
    /\ UNCHANGED storeVars /\ MainFrame

\* main, lines 256-260
MainPrepare ==
    /\ prog = "main" /\ mn.pc = "KeyGenerated"
    /\ mn' = [mn EXCEPT !.pc = "MessagePrepared",
                        !.eip712_data = PrepareEip712Data(MainAgent, "turbox", "Devnet", clock),
                        !.preparedAt = clock]
    /\ UNCHANGED storeVars /\ MainFrame

\* A main that signs right after generating the key, building the message
\* on the way without keeping it.
MainSignSkipsPrepare ==
    /\ prog = "main" /\ mn.pc \in {"KeyGenerated", "MessagePrepared"}
    /\ LET data == IF mn.pc = "MessagePrepared" THEN mn.eip712_data
                   ELSE PrepareEip712Data(MainAgent, "turbox", "Devnet", clock)
           sg == SignEip712Data(data, mn.trading_key, lib)
       IN  mn' = IF sg.ok
                 THEN [mn EXCEPT !.pc = "Signed", !.signature = sg.value]
                 ELSE [mn EXCEPT !.pc = "crashed", !.err = sg.err]
    /\ UNCHANGED storeVars /\ MainFrame

\* main, line 265; an exception here is not caught.
MainSign ==
    /\ prog = "main" /\ mn.pc = "MessagePrepared"
    /\ LET sg == SignEip712Data(mn.eip712_data, mn.trading_key, lib)
       IN  mn' = IF sg.ok
                 THEN [mn EXCEPT !.pc = "Signed", !.signature = sg.value]
                 ELSE [mn EXCEPT !.pc = "crashed", !.err = sg.err]
    /\ UNCHANGED storeVars /\ MainFrame

\* main, lines 270-283: the expiry handed over is computed anew from the clock.
MainSubmit(status) ==
    /\ prog = "main" /\ mn.pc = "Signed"
    /\ LET r == SubmitExchangeRequest(MainAgent, "turbox", ChainId,
                                      IntTime(clock) + ExpiryWindow, mn.signature, status)
       IN  mn' = [mn EXCEPT !.payload = r.payload,
                            !.pc = IF r.result.ok THEN "Submitted" ELSE "returned",
                            !.err = r.result.err]
    /\ UNCHANGED storeVars /\ MainFrame

\* main, lines 286-296; session_id is secrets.token_hex(16).
MainSave(sid) ==
    /\ prog = "main" /\ mn.pc = "Submitted"
    /\ files' = SaveSessionKeys(files, WalletAddress, sid, MainSessionData(sid))
    /\ hist' = Push(hist, Call("save", WalletAddress, sid, MainSessionData(sid), None))
    /\ pending' = [pending EXCEPT ![<<WalletAddress, sid>>] =
                      [set |-> TRUE, rec |-> MainSessionData(sid)]]
    /\ written' = written \cup {<<WalletAddress, sid>>}
    /\ mn' = [mn EXCEPT !.pc = "Persisted", !.session_id = sid]
    /\ MainFrame

\* main, lines 299-301
MainLoad ==
    /\ prog = "main" /\ mn.pc = "Persisted"
    /\ hist' = Push(hist, Call("load", WalletAddress, mn.session_id, <<>>,
                               LoadSessionKeys(files, WalletAddress, mn.session_id)))
    /\ mn' = [mn EXCEPT !.pc = "Loaded"]
    /\ UNCHANGED <<files, pending, written>> /\ MainFrame

Next ==
    \/ Tick
    \/ \E a \in AgentAddresses, d \in Draws : GsGenerateKey(WalletAddress, a, d)
    \/ GsPrepare
    \/ GsSign
    \/ GsReturn
    \/ \E k \in ApiKeys, u \in BOOLEAN : MakeSignedRequest(k, u)
    \/ \E d \in Draws : MainGenerateKey(d)
    \/ MainPrepare
    \/ MainSign
    \/ \E st \in {200, 500} : MainSubmit(st)
    \/ \E sid \in SessionIds : MainSave(sid)
    \/ MainLoad

Spec == Init /\ [][Next]_vars

-----------------------------------------------------------------------------
(* MMAuction (mm_auction.py): main() generates a session through           *)
(* mm.client and then registers the endpoint.                              *)

SessionNotInitialized == "Session not initialized. Call generate_session first."
MmEndpoints == {"http://your-mm-server:8080"}

AuctionInit ==
    /\ files = NoFiles /\ hist = <<>> /\ pending = NoPending /\ written = {}
    /\ dirent = 0 /\ inodes = NoInodes /\ proc = NoProcs /\ given = {}
    /\ lib \in Libs /\ prog = "auction"
    /\ clock = 0 /\ ticks = 0
    /\ session_data = NoSession /\ gs = GsIdle /\ lastReq = NoReq /\ mn = MainStart
    /\ enc = EncIdle /\ auction = AuctionIdle /\ mm = MmIdle

\* register_mm_endpoint, lines 81-94; api_key is the one MMAuction was built with.
RegisterMmEndpoint(api_key, agent_address, mm_endpoint) ==
    /\ prog = "auction" /\ gs.pc = "idle"
    /\ IF ~auction.session_data.set
       THEN /\ auction' = [auction EXCEPT !.reg =
                              [called |-> TRUE, err |-> SessionNotInitialized,
                               sent |-> FALSE, attached |-> FALSE]]
            /\ UNCHANGED lastReq
       ELSE /\ lastReq' = RequestMade(api_key, TRUE)
            /\ auction' = [auction EXCEPT !.reg =
                              [called |-> TRUE, err |-> lastReq'.err,
                               sent |-> lastReq'.sent, attached |-> lastReq'.attached]]
    /\ UNCHANGED <<storeVars, concVars, lib, prog, clock, ticks, session_data, gs, mn,
                   enc, mm>>

AuctionNext ==
    \/ \E a \in AgentAddresses, d \in Draws : GsGenerateKey(WalletAddress, a, d)
    \/ GsPrepare
    \/ GsSign
    \/ GsReturn
    \/ \E k \in ApiKeys, a \in AgentAddresses, e \in MmEndpoints :
          RegisterMmEndpoint(k, a, e)

SpecAuction == AuctionInit /\ [][AuctionNext]_vars

-----------------------------------------------------------------------------
(* OrderBookMM (mm_orderbook.py): construction, generate_session, start    *)
(* and stop.  None of the three suspends, so each is one step.             *)

\* LitLayerRestClient.generate_session run from its first line to its last.
GenerateSession(wallet_address, agent_address, draw, now, l) ==
    LET k == GenerateTradingKey(agent_address, draw, l)
        data == PrepareEip712Data(agent_address, "turbox", "Devnet", now)
        sg == SignEip712Data(data, k.value, l)
    IN  IF ~k.ok THEN k
        ELSE IF ~sg.ok THEN sg
        ELSE Ok([set |-> TRUE, wallet_address |-> wallet_address,
                 agent_address |-> agent_address, trading_key |-> k.value,
                 eip712_data |-> data, signature |-> sg.value])

\* OrderBookMM.generate_session, lines 60-69
MmSessionFor(draw) ==
    IF mm.wallet_address = "" \/ mm.agent_address = ""
    THEN Raise("Wallet address and agent address must be set")
    ELSE GenerateSession(mm.wallet_address, mm.agent_address, draw, clock, lib)

\* What calling an attribute does: a bound method runs, None raises TypeError.
Callable(attr) == attr = "method"

MmInit ==
    /\ files = NoFiles /\ hist = <<>> /\ pending = NoPending /\ written = {}
    /\ dirent = 0 /\ inodes = NoInodes /\ proc = NoProcs /\ given = {}
    /\ lib \in Libs /\ prog = "orderbook"
    /\ clock = 0 /\ ticks = 0
    /\ session_data = NoSession /\ gs = GsIdle /\ lastReq = NoReq /\ mn = MainStart
    /\ enc = EncIdle /\ auction = AuctionIdle
    /\ \E w \in {"", WalletAddress}, a \in {""} \cup AgentAddresses :
          mm = [MmIdle EXCEPT !.wallet_address = w, !.agent_address = a]

MmFrame == UNCHANGED <<storeVars, concVars, lib, prog, clock, ticks, gs, lastReq, mn,
                       enc, auction>>

MmGenerateSession(draw) ==
    /\ prog = "orderbook"
    /\ LET r == MmSessionFor(draw)
       IN  IF r.ok
           THEN /\ session_data' = r.value
                /\ mm' = [mm EXCEPT !.session_data = r.value,
                                    !.gen = [outcome |-> "returned", err |-> ""]]
           ELSE /\ UNCHANGED session_data
                /\ mm' = [mm EXCEPT !.gen = [outcome |-> "raised", err |-> r.err]]
    /\ MmFrame

\* start, lines 176-189.  Line 184 calls self.pending_order_task, the attribute
\* __init__ set to None at line 56.
MmStart(draw) ==
    /\ prog = "orderbook" /\ mm.start.outcome = "none"
    /\ LET r == IF mm.session_data.set THEN Ok(mm.session_data) ELSE MmSessionFor(draw)
       IN  IF ~r.ok
           THEN /\ UNCHANGED session_data
                /\ mm' = [mm EXCEPT !.start = [outcome |-> "raised", err |-> r.err]]
           ELSE /\ session_data' = IF mm.session_data.set THEN session_data ELSE r.value
                /\ mm' = IF ~Callable(mm.pending_order_task)
                          THEN [mm EXCEPT !.session_data = r.value, !.running = TRUE,
                                          !.start = [outcome |-> "raised", err |-> "TypeError"]]
                          ELSE IF ~Callable(mm.cancel_order_task)
                          THEN [mm EXCEPT !.session_data = r.value, !.running = TRUE,
                                          !.pending_order_task = "Task", !.pt = "top",
                                          !.start = [outcome |-> "raised", err |-> "TypeError"]]
                          ELSE [mm EXCEPT !.session_data = r.value, !.running = TRUE,
                                          !.pending_order_task = "Task", !.pt = "top",
                                          !.cancel_order_task = "Task", !.ct = "top",
                                          !.start = [outcome |-> "returned", err |-> ""]]
    /\ MmFrame

\* What cancelling the tasks in ts does to the lock: their coroutines leave
\* the queue, and the one that holds the lock lets go of it on its way out.
CoroutinesOf(ts) ==
    (IF "pending_order_task" \in ts THEN {"pending_order_task"} ELSE {}) \cup
    (IF "cancel_order_task" \in ts THEN {"cancel_order_task", "cancel_order"} ELSE {})
LockAfterCancel(lock, ts) ==
    [locked |-> lock.locked /\ lock.holder \notin ts,
     holder |-> IF lock.holder \in ts THEN "" ELSE lock.holder,
     waiters |-> SelectSeq(lock.waiters, LAMBDA c : c \notin CoroutinesOf(ts))]

\* stop, lines 191-210: only a task held in an attribute is cancelled and
\* awaited; an attribute that is None is passed over.
MmStop ==
    /\ prog \in {"orderbook", "loops"}
    /\ mm.running
    /\ LET ts == (IF mm.pending_order_task = "Task" THEN {"pending_order_task"} ELSE {}) \cup
                 (IF mm.cancel_order_task = "Task" THEN {"cancel_order_task"} ELSE {})
       IN  mm' = [mm EXCEPT !.running = FALSE,
                            !.pt = IF "pending_order_task" \in ts THEN "cancelled" ELSE @,
                            !.ct = IF "cancel_order_task" \in ts THEN "cancelled" ELSE @,
                            !.lock = LockAfterCancel(@, ts)]
    /\ UNCHANGED session_data /\ MmFrame

MmNext ==
    \/ Tick
    \/ \E d \in Draws : MmGenerateSession(d)
    \/ \E d \in Draws : MmStart(d)
    \/ MmStop

SpecMM == MmInit /\ [][MmNext]_vars

-----------------------------------------------------------------------------
(* The two periodic coroutines of OrderBookMM as tasks of one event loop.  *)
(* start() cannot create them, so they are started through the class       *)
(* (OrderBookMM.pending_order_task(mm)) on a market maker whose            *)
(* active_orders the caller has filled.  A step is what a task does from   *)
(* the moment the loop resumes it until it next suspends.                  *)

LastPrice == 1800000000                  \* get_market_data, line 92
\* order_config.max_orders is any count the caller configures.
MaxOrdersChoices == {0, 1, MaxOrders}
OrderIds == {"o1", "o2"}
OrderPrices == {0, LastPrice, 1850000000}   \* 0: the order has no "price"
OrderBooks ==
    {<<>>} \cup {<<[order_id |-> i, price |-> x]>> : i \in OrderIds, x \in OrderPrices}
           \cup UNION { {<<[order_id |-> i, price |-> x], [order_id |-> j, price |-> y]>> :
                            j \in OrderIds \ {i}, x \in OrderPrices, y \in OrderPrices} :
                         i \in OrderIds }

Abs(x) == IF x < 0 THEN -x ELSE x
\* abs(order_price - current_price) / current_price > 0.02, lines 164-168
PriceMoved(order_price, current_price) ==
    Abs(order_price - current_price) > (current_price \div 100) * 2

\* asyncio.Lock: acquire succeeds at once on a free lock nobody waits for,
\* else the caller queues up; release wakes the first in the queue.
CanAcquire(lock) == ~lock.locked /\ lock.waiters = <<>>
Granted(lock, who) == ~lock.locked /\ lock.waiters # <<>> /\ Head(lock.waiters) = who
Enqueue(lock, who) == [lock EXCEPT !.waiters = Append(@, who)]

\* place_order, lines 105-111: create_order is an ordinary function, so what
\* it returns (a dict) is awaited, which raises TypeError; a failed request
\* raises before that.
PlaceOrder(req) == IF req.err # "" THEN Raise("Exception") ELSE Raise("TypeError")

\* cancel_order_task, lines 161-169: the first order of the listing whose
\* price moved, 0 if none.
RECURSIVE FirstMoved(_, _)
FirstMoved(orders, i) ==
    IF i > Len(orders) THEN 0
    ELSE IF PriceMoved(orders[i].price, LastPrice) THEN i
    ELSE FirstMoved(orders, i + 1)

Without(orders, id) == SelectSeq(orders, LAMBDA o : o.order_id # id)

LoopsInit ==
    /\ files = NoFiles /\ hist = <<>> /\ pending = NoPending /\ written = {}
    /\ dirent = 0 /\ inodes = NoInodes /\ proc = NoProcs /\ given = {}
    /\ lib = [hexPrefixed |-> TRUE, validates |-> TRUE] /\ prog = "loops"
    /\ clock = 0 /\ ticks = 0
    /\ session_data = NoSession /\ gs = GsIdle /\ lastReq = NoReq /\ mn = MainStart
    /\ enc = EncIdle /\ auction = AuctionIdle
    /\ \E max \in MaxOrdersChoices :
          \E book \in {b \in OrderBooks : Len(b) <= max} :
             mm = [MmIdle EXCEPT !.wallet_address = WalletAddress, !.agent_address = "0xd2",
                                 !.active_orders = book, !.max_orders = max,
                                 !.running = TRUE, !.pt = "ready", !.ct = "ready"]

LoopsFrame == UNCHANGED <<storeVars, concVars, lib, prog, clock, ticks, session_data, gs,
                          mn, enc, auction>>

\* A body that enters the order it asked for into active_orders whatever
\* came back and however many orders are active.
PendingBodyUnchecked(m, req) ==
    [m EXCEPT !.active_orders =
                  Append(@, [order_id |-> "n" \o ToString(Len(@)), price |-> LastPrice]),
              !.lock = [@ EXCEPT !.locked = FALSE, !.holder = ""],
              !.pt = "sleeping"]

\* The body of pending_order_task under the lock, lines 134-145, and the
\* release at the end of the async with.
PendingBody(m, req) ==
    LET order == IF Len(m.active_orders) < m.max_orders THEN PlaceOrder(req) ELSE Raise("")
    IN  [m EXCEPT !.active_orders = IF order.ok THEN Append(@, order.value) ELSE @,
                  !.lock = [@ EXCEPT !.locked = FALSE, !.holder = ""],
                  !.pt = "sleeping"]

\* pending_order_task, lines 121-150
PendingOrderTaskStep(api_key) ==
    /\ prog = "loops"
    /\ \/ /\ mm.pt \in {"ready", "sleeping"}
          /\ IF ~mm.running
             THEN mm' = [mm EXCEPT !.pt = "done"] /\ UNCHANGED lastReq
             ELSE IF ~CanAcquire(mm.lock)
             THEN mm' = [mm EXCEPT !.pt = "acquiring", !.lock = Enqueue(@, "pending_order_task")]
                  /\ UNCHANGED lastReq
             ELSE /\ lastReq' = IF Len(mm.active_orders) < mm.max_orders
                                THEN RequestMade(api_key, TRUE) ELSE lastReq
                  /\ mm' = PendingBody(mm, lastReq')
       \/ /\ mm.pt = "acquiring" /\ Granted(mm.lock, "pending_order_task")
          /\ lastReq' = IF Len(mm.active_orders) < mm.max_orders
                        THEN RequestMade(api_key, TRUE) ELSE lastReq
          /\ mm' = PendingBody([mm EXCEPT !.lock.waiters = Tail(@)], lastReq')
    /\ LoopsFrame

\* cancel_order_task under the lock, lines 161-169: it goes through the
\* listing and, at the first order whose price moved, awaits cancel_order,
\* which queues up for the lock its caller holds (line 116).
CancelScan(m) ==
    LET i == FirstMoved(m.active_orders, 1)
    IN  IF i = 0
        THEN [m EXCEPT !.ct = "sleeping",
                       !.lock = [@ EXCEPT !.locked = FALSE, !.holder = ""]]
        ELSE [m EXCEPT !.ct = "cancelling",
                       !.found = m.active_orders[i].order_id,
                       !.rest = SubSeq(m.active_orders, i + 1, Len(m.active_orders)),
                       !.lock = [locked |-> TRUE, holder |-> "cancel_order_task",
                                 waiters |-> Append(m.lock.waiters, "cancel_order")]]

\* cancel_order_task, lines 152-174, and cancel_order, lines 113-119.
CancelOrderTaskStep ==
    /\ prog = "loops"
    /\ \/ /\ mm.ct \in {"ready", "sleeping"}
          /\ mm' = IF ~mm.running THEN [mm EXCEPT !.ct = "done"]
                   ELSE IF ~CanAcquire(mm.lock)
                   THEN [mm EXCEPT !.ct = "acquiring",
                                   !.lock = Enqueue(@, "cancel_order_task")]
                   ELSE CancelScan(mm)
       \/ /\ mm.ct = "acquiring" /\ Granted(mm.lock, "cancel_order_task")
          /\ mm' = CancelScan([mm EXCEPT !.lock.waiters = Tail(@)])
       \/ /\ mm.ct = "cancelling" /\ Granted(mm.lock, "cancel_order")
          /\ LET i == FirstMoved(mm.rest, 1)
                 left == Without(mm.active_orders, mm.found)
             IN  IF i = 0
                 THEN mm' = [mm EXCEPT !.active_orders = left, !.ct = "sleeping",
                                       !.found = "", !.rest = <<>>,
                                       !.lock.waiters = Tail(@)]
                 ELSE mm' = [mm EXCEPT !.active_orders = left,
                                       !.found = mm.rest[i].order_id,
                                       !.rest = SubSeq(mm.rest, i + 1, Len(mm.rest))]
    /\ UNCHANGED lastReq /\ LoopsFrame

LoopsNext ==
    \/ \E k \in ApiKeys : PendingOrderTaskStep(k)
    \/ CancelOrderTaskStep
    \/ MmStop

SpecLoops == LoopsInit /\ [][LoopsNext]_vars
SpecLoopsFair ==
    SpecLoops /\ WF_vars(\E k \in ApiKeys : PendingOrderTaskStep(k)) /\ WF_vars(CancelOrderTaskStep)

-----------------------------------------------------------------------------
(* Claims about the session store.                                         *)

Last == hist[Len(hist)]
KeyOf(c) == <<c.w, c.s>>

\* C1: a load of a key returns the record last saved at that key whenever no
\* other save or delete was made on that key since the save.
C1_SaveThenLoadReturnsSaved ==
    (hist # <<>> /\ Last.op = "load" /\ pending[KeyOf(Last)].set)
        => Last.res = Value(pending[KeyOf(Last)].rec)

\* C1 (the adjacent case): a load right after a save of the same key.
C1_Witness ==
    /\ Len(hist) = 2
    /\ hist[1].op = "save" /\ hist[2].op = "load"
    /\ KeyOf(hist[1]) = KeyOf(hist[2])
    /\ hist[2].res = Value(hist[1].rec)

\* C2: a save or delete on one key leaves the result of a load of every other
\* key unchanged.
C2_DistinctKeysIndependent ==
    [][ (hist' # <<>> /\ hist'[Len(hist')].op \in {"save", "delete"})
          => \A k \in Keys :
                k # KeyOf(hist'[Len(hist')])
                  => LoadSessionKeys(files', k[1], k[2]) = LoadSessionKeys(files, k[1], k[2]) ]_vars

\* C2 (reached case): a save on one key, with a record present at another key.
C2_Witness ==
    /\ hist # <<>> /\ Last.op = "save"
    /\ \E k \in Keys : k # KeyOf(Last) /\ FilePath(k[1], k[2]) # FilePath(Last.w, Last.s)
                          /\ LoadSessionKeys(files, k[1], k[2]).kind = "value"

\* C10: a save over an existing record replaces it whole: the load that
\* follows returns exactly the record of the second save.
C10_SaveOverwrites ==
    (/\ Len(hist) = 2
     /\ hist[1].op = "save" /\ hist[1].before.kind = "value"
     /\ hist[2].op = "load" /\ KeyOf(hist[2]) = KeyOf(hist[1]))
        => hist[2].res = Value(hist[1].rec)

\* C10 (reached case): RecB saved over RecA, then loaded.
C10_Witness ==
    /\ Len(hist) = 2
    /\ hist[1].op = "save" /\ hist[1].before = Value(RecA) /\ hist[1].rec = RecB
    /\ hist[2].op = "load" /\ KeyOf(hist[2]) = KeyOf(hist[1])
    /\ hist[2].res = Value(RecB)

\* C3: with save, load and delete running concurrently on one key, a load
\* returns absent or a record some save was given, and never fails.
C3_LoadNeverSeesPartialRecord ==
    \A p \in Procs :
        (proc[p].op = "load" /\ proc[p].pc = "idle")
            => \/ proc[p].res.kind = "none"
               \/ proc[p].res.kind = "value" /\ proc[p].res.value \in given

\* C3 (reached case): a load that ran while a save was in progress.
C3_Witness ==
    \E p, q \in Procs :
        /\ proc[p].op = "load" /\ proc[p].pc = "idle" /\ proc[p].res.kind = "value"
        /\ proc[q].pc = "writing"

C11_AfterDelete ==
    (hist # <<>> /\ Last.op = "delete") =>
        /\ Last.res = None
        /\ LoadSessionKeys(files, Last.w, Last.s) = None

C11_SecondDelete ==
    (/\ hist # <<>> /\ Last.op = "delete"
     /\ hist' # hist /\ hist'[Len(hist')].op = "delete"
     /\ KeyOf(hist'[Len(hist')]) = KeyOf(Last))
        => files' = files

\* C11: a delete never fails, whether or not a record is there; a load right
\* after it returns absent; and a second delete of the same key leaves the
\* store as the first left it.
C11_DeleteIdempotentAndTotal == [](C11_AfterDelete) /\ [][C11_SecondDelete]_vars

\* C11 (reached case): a record deleted, then the same key deleted again.
C11_Witness ==
    /\ Len(hist) = 2
    /\ hist[1].op = "delete" /\ hist[1].before.kind = "value"
    /\ hist[2].op = "delete" /\ KeyOf(hist[2]) = KeyOf(hist[1])
    /\ hist[2].before = None

\* C12: a load of a key no record was ever saved at returns absent.
C12_LoadOfNeverWrittenKeyIsAbsent ==
    (hist # <<>> /\ Last.op = "load" /\ KeyOf(Last) \notin written)
        => Last.res = None

\* C12 (reached case): such a load, made while other keys hold records.
C12_Witness ==
    /\ hist # <<>> /\ Last.op = "load" /\ KeyOf(Last) \notin written
    /\ written # {} /\ Last.res = None

-----------------------------------------------------------------------------
(* Claims about session creation, main() and the signed requests.          *)

GsOrder == { <<"idle", "KeyGenerated">>, <<"KeyGenerated", "MessagePrepared">>,
             <<"MessagePrepared", "Signed">>, <<"MessagePrepared", "idle">>,
             <<"Signed", "idle">> }
MainOrder == { <<"Uninitialized", "KeyGenerated">>, <<"Uninitialized", "crashed">>,
               <<"KeyGenerated", "MessagePrepared">>,
               <<"MessagePrepared", "Signed">>, <<"MessagePrepared", "crashed">>,
               <<"Signed", "Submitted">>, <<"Signed", "returned">>,
               <<"Submitted", "Persisted">>, <<"Persisted", "Loaded">> }

\* The signature a flow holds was made from the key it generated and the
\* message it prepared.
SignedFromOwn(f, agent) ==
    f.signature # NoSig =>
        /\ \E d \in Draws : GenerateTradingKey(agent, d, lib) = Ok(f.trading_key)
        /\ f.eip712_data = PrepareEip712Data(agent, "turbox", "Devnet", f.preparedAt)
        /\ SignEip712Data(f.eip712_data, f.trading_key, lib).ok
        /\ f.signature = SignEip712Data(f.eip712_data, f.trading_key, lib).value

C4_State ==
    /\ SignedFromOwn(gs, gs.agent)
    /\ SignedFromOwn(mn, MainAgent)
    /\ mn.pc \in {"Signed", "Submitted", "Persisted", "Loaded"} => mn.signature # NoSig
    /\ gs.pc = "Signed" => gs.signature # NoSig
    /\ session_data.set =>
          /\ session_data.signature # NoSig
          /\ SignEip712Data(session_data.eip712_data, session_data.trading_key, lib)
                = Ok(session_data.signature)
    /\ mn.pc \in {"Persisted", "Loaded"} =>
          /\ mn.signature # NoSig
          /\ files[FilePath(WalletAddress, mn.session_id)] =
                [exists |-> TRUE, data |-> JsonDump(MainSessionData(mn.session_id))]
    /\ (prog = "main" /\ mn.pc \notin {"Persisted", "Loaded"}) =>
          \A p \in Paths : files[p].exists => files[p].data = JsonDump(RecA)

C4_Step ==
    /\ gs'.pc # gs.pc => <<gs.pc, gs'.pc>> \in GsOrder
    /\ mn'.pc # mn.pc => <<mn.pc, mn'.pc>> \in MainOrder

\* C4: the session states are passed in order, none skipped: a signature is
\* made only from the key generated and the message prepared before it in the
\* same session, and a record is written to the store only once signed.
C4_StrictlySequential == [](C4_State) /\ [][C4_Step]_vars

\* C4 (reached case): main() has gone through every state up to Persisted.
C4_Witness == mn.pc = "Persisted" /\ mn.signature # NoSig

\* C5: when generate_session raises, nothing is returned, no signature is
\* made up, and session_data is what it was when the call began.
C5_FailureLeavesNoPartialSession ==
    gs.outcome = "raised" =>
        /\ gs.pc = "idle" /\ gs.err # ""
        /\ gs.ret = NoSession
        /\ gs.signature = NoSig
        /\ session_data = gs.before

\* C5 (reached case): a call failed while the client held an earlier session.
C5_Witness ==
    /\ gs.outcome = "raised" /\ gs.before.set
    /\ session_data = gs.before

\* C6: no step of generate_session changes the store; a file gets its
\* contents only in a step that is a save_session_keys call.
C6_GenerateSessionDoesNotPersist ==
    [][ /\ (gs' # gs \/ session_data' # session_data) => files' = files
        /\ \A p \in Paths :
              (files'[p] # files[p] /\ files'[p].exists) =>
                  /\ hist' # <<>>
                  /\ hist'[Len(hist')].op = "save"
                  /\ FilePath(hist'[Len(hist')].w, hist'[Len(hist')].s) = p ]_vars

\* C6 (reached case): a session was created and the store is as it was.
C6_Witness ==
    /\ prog = "client" /\ gs.outcome = "returned" /\ session_data.set
    /\ files = SeededFiles /\ hist = <<>>

\* C7: the expiry_time main() hands to submit_exchange_request is the
\* expiryTime of the message it signed.
C7_SubmittedExpiryIsSignedExpiry ==
    mn.payload # NoPayload =>
        mn.payload.expiry_time = mn.eip712_data.message.expiryTime

\* C7 (reached case): a request was submitted for a signed message.
C7_Witness ==
    /\ mn.pc = "Submitted" /\ mn.payload.signature = mn.signature
    /\ mn.payload.expiry_time = mn.eip712_data.message.expiryTime

\* C8: make_signed_request attaches a session's signature only while the
\* session's expiryTime lies after the current time.
C8_NoExpiredSignatureAttached ==
    lastReq.attached => lastReq.expiryTime * TicksPerSecond > lastReq.at

\* C8 (reached case): a request carrying the signature of a live session.
C8_Witness ==
    /\ lastReq.attached /\ lastReq.signature = session_data.signature
    /\ lastReq.expiryTime * TicksPerSecond > lastReq.at

Prepared(f) == f.eip712_data # NoData

\* C9: a prepared message expires exactly 86400 s after the whole second it
\* was built in, hence strictly after the time it was built.
C9_ExpiryIsNowPlusWindow ==
    \A f \in {gs, mn} :
        Prepared(f) =>
            /\ f.eip712_data.message.expiryTime = (f.preparedAt \div TicksPerSecond) + 86400
            /\ f.eip712_data.message.expiryTime * TicksPerSecond > f.preparedAt

\* C9 (reached case): a message built at a clock reading that is no whole second.
C9_Witness ==
    \E f \in {gs, mn} :
        /\ Prepared(f) /\ f.preparedAt % TicksPerSecond # 0
        /\ f.eip712_data.message.expiryTime = IntTime(f.preparedAt) + ExpiryWindow

-----------------------------------------------------------------------------
(* Claims about the typed-data digest.  The reference digest is EIP-712's: *)
(* hashStruct(s) = keccak256(typeHash(s) || the encoded fields), a string  *)
(* field encoded as its keccak256.                                         *)

RECURSIVE FieldList(_, _)
FieldList(schema, i) ==
    IF i > Len(schema) THEN ""
    ELSE (IF i > 1 THEN "," ELSE "") \o schema[i].type \o " " \o schema[i].name
         \o FieldList(schema, i + 1)
TypeSignature(struct, schema) == struct \o "(" \o FieldList(schema, 1) \o ")"
TypeHash(struct, schema) == Keccak(TypeSignature(struct, schema))

PyOf(type, v) == IF type = "uint256" THEN PyInt(v) ELSE PyStr(v)
Eip712EncodeValue(type, v) ==
    IF type = "string" THEN Keccak(v) ELSE AbiValue(type, PyOf(type, v))
Eip712HashStruct(struct, schema, values) ==
    Keccak(<<TypeHash(struct, schema)>> \o
           [i \in 1..Len(schema) |->
               Eip712EncodeValue(schema[i].type, values[schema[i].name])])
Eip712Digest(data) ==
    Keccak(<<"1901",
             Eip712HashStruct("EIP712Domain", data.types.EIP712Domain, data.domain),
             Eip712HashStruct("Agent", data.types.Agent, data.message)>>)

\* Two results of the encoder are different digests, or one of them is none.
Differ(r1, r2) == r1.ok # r2.ok \/ (r1.ok /\ r1.value # r2.value)

\* C13: the digest encode_typed_data computes is the EIP-712 digest of its
\* input, each struct hash led by the typeHash of its schema.
C13_DigestIsEip712Digest ==
    (enc.how # "none" /\ enc.res.ok) => enc.res.value = Eip712Digest(enc.data)

\* C13 (reached case): a digest was computed for a well-formed input.
C13_Witness == enc.how = "base" /\ enc.res.ok

FieldType(f) ==
    (CHOOSE x \in {Types.EIP712Domain[i] : i \in 1..Len(Types.EIP712Domain)} :
        x.name = f).type
DomainValue(d, f) == AbiValue(FieldType(f), PyOf(FieldType(f), d[f]))

\* C14: an input that differs from another in the value of one domain field
\* has a different digest.
C14_DomainSeparation ==
    (/\ enc.how = "domain"
     /\ enc.res.ok \/ enc.baseRes.ok
     /\ \E f \in DomainFields : DomainValue(enc.data.domain, f) # DomainValue(enc.base.domain, f))
        => Differ(enc.res, enc.baseRes)

\* C14 (reached case): one domain field changed, both inputs encoded.
C14_Witness ==
    /\ enc.how = "domain" /\ enc.res.ok /\ enc.baseRes.ok
    /\ enc.data.domain.salt # enc.base.domain.salt
    /\ enc.res.value # enc.baseRes.value

\* C15: an input whose schema lists the fields of a struct in another order
\* has a different digest.
C15_FieldOrderSensitive ==
    (enc.how = "schema" /\ enc.data.types # enc.base.types /\ enc.baseRes.ok)
        => Differ(enc.res, enc.baseRes)

\* C15 (reached case): a permuted schema that the encoder did not ignore.
C15_Witness ==
    /\ enc.how = "schema" /\ enc.data.types # enc.base.types /\ enc.baseRes.ok
    /\ Differ(enc.res, enc.baseRes)

-----------------------------------------------------------------------------
(* Claims about the trading key.                                           *)

\* The scalar a key string carries: its last KeyLen bytes.
ScalarOf(key) == HexToInt(SubSeq(key, Len(key) - 2 * KeyLen + 1, Len(key)))
InRange(x) == x >= 1 /\ x <= GroupOrder - 1

C16_Step ==
    /\ (gs.pc = "idle" /\ gs' # gs) =>
           (gs'.pc = "KeyGenerated" /\ InRange(ScalarOf(gs'.trading_key)))
    /\ (mn.pc = "Uninitialized" /\ mn' # mn) =>
           (mn'.pc = "KeyGenerated" /\ InRange(ScalarOf(mn'.trading_key)))

\* C16: every call of generate_trading_key returns a key, and the key's
\* scalar lies in [1, n-1], whatever bytes were drawn.
C16_KeyScalarInRange == [][C16_Step]_vars

\* C16 (reached case): a key was returned for a draw inside the range.
C16_Witness == gs.pc = "KeyGenerated" /\ InRange(ScalarOf(gs.trading_key))

\* C17: the string generate_trading_key returned is "0x" and the hex of the
\* bytes drawn, so that sign_eip712_data, dropping two characters, decodes
\* the same bytes.
C17_KeyHexRoundTrips ==
    gs.pc = "KeyGenerated" =>
        LET hex == SubSeq(gs.trading_key, 3, Len(gs.trading_key))
        IN  /\ IsHex(hex)
            /\ \E d \in Draws :
                  /\ GenerateTradingKey(gs.agent, d, lib) = Ok(gs.trading_key)
                  /\ Bytes(Len(hex) \div 2, HexToInt(hex)) = Bytes(KeyLen, d)

\* C17 (reached case): a generated key was decoded by the signing step and
\* the session reached Signed.
C17_Witness ==
    /\ gs.pc = "Signed"
    /\ gs.signature.signer = ScalarOf(gs.trading_key)

-----------------------------------------------------------------------------
(* Claims about the market makers.                                         *)

\* C18: register_mm_endpoint raises "Session not initialized" exactly when no
\* session has been generated through the market maker's client.
C18_RegisterFailsOnlyWithoutSession ==
    auction.reg.called =>
        (auction.reg.err = SessionNotInitialized <=> ~session_data.set)

\* C18 (reached case): registering before any session was generated.
C18_Witness ==
    /\ auction.reg.called /\ ~session_data.set
    /\ auction.reg.err = SessionNotInitialized

\* C19: a start() that had or obtained a session returns, with running set
\* and both periodic tasks scheduled; no loop runs without a session.
C19_StartSchedulesBothTasks ==
    /\ (mm.start.outcome # "none" /\ mm.session_data.set) =>
          /\ mm.start.outcome = "returned"
          /\ mm.running
          /\ mm.pending_order_task = "Task" /\ mm.cancel_order_task = "Task"
    /\ (mm.pt # "none" \/ mm.ct # "none") => mm.session_data.set

\* C19 (reached case): start() was called and the market maker holds a session.
C19_Witness ==
    /\ mm.start.outcome # "none" /\ mm.session_data.set /\ mm.running

OrderActive(id) == \E i \in 1..Len(mm.active_orders) : mm.active_orders[i].order_id = id

\* C20: an order that cancel_order_task, holding the lock, has found to be
\* more than 2% off the last price is eventually removed from
\* active_orders, with the lock free again.
C20_CancellationMakesProgress ==
    \A id \in OrderIds :
        (mm.ct = "cancelling" /\ mm.found = id) ~> (~OrderActive(id) /\ ~mm.lock.locked)

\* C20 (reached case): cancel_order_task holds the lock and awaits cancel_order
\* for the order it found, while pending_order_task waits for the lock.
C20_Witness ==
    /\ mm.ct = "cancelling" /\ OrderActive(mm.found)
    /\ mm.lock.holder = "cancel_order_task"
    /\ mm.pt = "acquiring"

C21_Bounded == Len(mm.active_orders) <= mm.max_orders

C21_UnderLock ==
    mm'.active_orders # mm.active_orders => ~mm.lock.locked

Finished == {"done", "cancelled"}

C22_Stopped ==
    ~mm.running =>
        /\ mm.pt \in Finished /\ mm.ct \in Finished
        /\ ~mm.lock.locked

C22_Quiet ==
    ~mm.running => (mm'.active_orders = mm.active_orders /\ lastReq' = lastReq)

====
